---- MODULE Spec2Model ----
(***************************************************************************)
(* Model of the Nexi session lifecycle manager                             *)
(* (BACKEND/core/session_manager.py): NexiSessionManager, UserSession and  *)
(* the per-user history file each UserSession writes through to.           *)
(*                                                                         *)
(* handle_message, get_or_create_session, end_session and                  *)
(* check_inactive_sessions are plain (non-async) methods: on the asyncio   *)
(* event loop each call runs to completion, so each is one action.  The    *)
(* only await of the manager is the sleep of _cleanup_loop.                *)
(***************************************************************************)
EXTENDS Integers, Sequences, FiniteSets, TLC

(* ------------------------------ bounds -------------------------------- *)
MaxTime == 50        \* the clock stops advancing here (seconds)
TickStep == 10       \* granularity of the clock (seconds per Tick)
MaxCalls == 2        \* manager API calls made by request handlers
MaxFaults == 1       \* failed writes of a history file

(* ------------------------ program constants --------------------------- *)
timeout_seconds == 30
cleanup_interval == 10

Users == {"u1", "u2"}
Answers == {"A"}

\* Python strings are modelled as sequences of one-character strings.
Questions == { <<"h", "i">>, <<"O", "k", " ", "B", "y", "e">> }

goodbye_phrases ==
  << <<"g","o","o","d","b","y","e">>,
     <<"b","y","e">>,
     <<"s","e","e"," ","y","o","u">>,
     <<"e","x","i","t">>,
     <<"q","u","i","t">>,
     <<"t","h","a","n","k"," ","y","o","u"," ","b","y","e">>,
     <<"g","o","o","d"," ","b","y","e">>,
     <<"f","a","r","e","w","e","l","l">>,
     <<"s","e","e"," ","y","o","u"," ","l","a","t","e","r">>,
     <<"t","a","l","k"," ","t","o"," ","y","o","u"," ","l","a","t","e","r">>,
     <<"t","t","y","l">> >>

(* --------------------------- string helpers --------------------------- *)
UpperLetters == <<"A","B","C","D","E","F","G","H","I","J","K","L","M",
                  "N","O","P","Q","R","S","T","U","V","W","X","Y","Z">>
LowerLetters == <<"a","b","c","d","e","f","g","h","i","j","k","l","m",
                  "n","o","p","q","r","s","t","u","v","w","x","y","z">>
Whitespace == {" ", "\t", "\n"}

LowerChar(c) ==
  IF \E i \in 1..26 : UpperLetters[i] = c
  THEN LowerLetters[CHOOSE i \in 1..26 : UpperLetters[i] = c]
  ELSE c

\* str.lower()
lower(m) == [i \in 1..Len(m) |-> LowerChar(m[i])]

\* str.strip()
strip(m) ==
  LET keep == {i \in 1..Len(m) : m[i] \notin Whitespace} IN
  IF keep = {} THEN <<>>
  ELSE LET lo == CHOOSE i \in keep : \A j \in keep : i <= j
           hi == CHOOSE i \in keep : \A j \in keep : j <= i
       IN SubSeq(m, lo, hi)

\* Python's "phrase in text" on strings
contains(text, phrase) ==
  \E i \in 1..(Len(text) - Len(phrase) + 1) :
     SubSeq(text, i, i + Len(phrase) - 1) = phrase

\* is_goodbye_message comparing without lower()
is_goodbye_message_case_sensitive(message) ==
  LET message_lower == strip(message) IN
  \E k \in 1..Len(goodbye_phrases) : contains(message_lower, goodbye_phrases[k])

is_goodbye_message(message) ==
  LET message_lower == strip(lower(message)) IN
  \E k \in 1..Len(goodbye_phrases) : contains(message_lower, goodbye_phrases[k])

\* datetime.isoformat(): a timestamp rendered as text, not a number
isoformat(t) == <<"iso", t>>

\* str(answer)
str(a) == a

VARIABLES
  now,          \* time.time() / datetime.now()
  sessions,     \* NexiSessionManager.sessions: user id -> UserSession
  disk,         \* session_dir: user id -> contents of <user>_history.json
  is_running,   \* NexiSessionManager.is_running
  cleanup_task, \* the _cleanup_loop task: [state, wake]
  last,         \* the call that ran last, with its return value
  recorded,     \* per user: the interactions handed to add_interaction
  calls,        \* per user: manager API calls made by request handlers
  save_failed,  \* per user: did the latest save() of the session fail
  faults,       \* failed writes so far
  rag,          \* the RAG engines' globals and the tool call in progress
  fn            \* a function under test: its input and its result

\* the variables of the session manager
session_vars == <<now, sessions, disk, is_running, cleanup_task, last,
                  recorded, calls, save_failed, faults>>

vars == <<now, sessions, disk, is_running, cleanup_task, last, recorded,
          calls, save_failed, faults, rag, fn>>

\* no RAG engine in use, no function under test
NoRag == [op |-> "none"]
NoCall == [op |-> "none"]

(* ------------------------------ files --------------------------------- *)
SaveOutcomes == {"ok", "open_error", "write_error"}

NoData ==
  [user_id |-> "", created_at |-> isoformat(0), all_sessions |-> <<>>,
   current_session |-> [start_time |-> isoformat(0), conversation |-> <<>>,
                        last_activity |-> isoformat(0)]]

\* a file that open(..., 'w') truncated and json.dump did not finish
TruncatedFile == [valid |-> FALSE, data |-> NoData]

\* the outcomes a write can still have under the bound on failed writes
Outcomes == IF faults < MaxFaults THEN SaveOutcomes ELSE {"ok"}

(* ---------------------------- UserSession ----------------------------- *)
\* A call state st = [sess, disk, failed, faults] is threaded through the
\* methods of one UserSession: the object, the directory of history files,
\* whether its latest save failed, and the count of failed writes.

update_activity(s) == [s EXCEPT !.last_activity = now]

save_data(s) ==
  [user_id |-> s.history.user_id,
   created_at |-> s.history.created_at,
   all_sessions |-> s.history.all_sessions,
   current_session |->
     [start_time |-> isoformat(s.session_start_time),
      conversation |-> s.current_conversation,
      last_activity |-> isoformat(s.last_activity)]]

\* load that restores the archived sessions only
load_history_only(s, d) ==
  LET u == s.user_id IN
  IF u \in DOMAIN d /\ d[u].valid
  THEN LET data == d[u].data
       IN [s EXCEPT
             !.history = [user_id |-> data.user_id,
                          created_at |-> data.created_at,
                          all_sessions |-> data.all_sessions]]
  ELSE s

load(s, d) ==
  LET u == s.user_id IN
  IF u \in DOMAIN d /\ d[u].valid
  THEN LET data == d[u].data
           current_session == data.current_session
       IN [s EXCEPT
             !.history = [user_id |-> data.user_id,
                          created_at |-> data.created_at,
                          all_sessions |-> data.all_sessions],
             !.current_conversation =
                IF current_session.conversation # <<>>
                THEN current_session.conversation
                ELSE @]
  ELSE s

\* save that, when the write fails, falls back to what the file holds
save_reload_on_error(st, oc) ==
  LET u == st.sess.user_id IN
  CASE oc = "ok" ->
         [st EXCEPT !.disk = (u :> [valid |-> TRUE, data |-> save_data(st.sess)]) @@ st.disk,
                    !.failed = FALSE]
    [] oc = "open_error" ->
         [st EXCEPT !.sess = load(st.sess, st.disk),
                    !.failed = TRUE, !.faults = @ + 1]
    [] oc = "write_error" ->
         [st EXCEPT !.sess = load(st.sess, st.disk),
                    !.disk = (u :> TruncatedFile) @@ st.disk,
                    !.failed = TRUE, !.faults = @ + 1]

save(st, oc) ==
  LET u == st.sess.user_id IN
  CASE oc = "ok" ->
         [st EXCEPT !.disk = (u :> [valid |-> TRUE, data |-> save_data(st.sess)]) @@ st.disk,
                    !.failed = FALSE]
    [] oc = "open_error" ->
         [st EXCEPT !.failed = TRUE, !.faults = @ + 1]
    [] oc = "write_error" ->
         [st EXCEPT !.disk = (u :> TruncatedFile) @@ st.disk,
                    !.failed = TRUE, !.faults = @ + 1]

UserSession(u, d) ==
  load([user_id |-> u,
        last_activity |-> now,
        session_start_time |-> now,
        current_conversation |-> <<>>,
        history |-> [user_id |-> u, created_at |-> isoformat(now),
                     all_sessions |-> <<>>]],
       d)

\* add_interaction that keeps the interaction in memory and does not save
add_interaction_no_save(st, question, answer, oc) ==
  LET interaction == [timestamp |-> isoformat(now),
                      question |-> question,
                      answer |-> str(answer)]
      s1 == update_activity(st.sess)
      s2 == [s1 EXCEPT !.current_conversation = Append(@, interaction)]
  IN [st EXCEPT !.sess = s2]

\* add_interaction inserting the new interaction at the front
add_interaction_prepend(st, question, answer, oc) ==
  LET interaction == [timestamp |-> isoformat(now),
                      question |-> question,
                      answer |-> str(answer)]
      s1 == update_activity(st.sess)
      s2 == [s1 EXCEPT !.current_conversation = <<interaction>> \o @]
  IN save([st EXCEPT !.sess = s2], oc)

\* add_interaction assigning the new interaction instead of appending it
add_interaction_assign(st, question, answer, oc) ==
  LET interaction == [timestamp |-> isoformat(now),
                      question |-> question,
                      answer |-> str(answer)]
      s1 == update_activity(st.sess)
      s2 == [s1 EXCEPT !.current_conversation = <<interaction>>]
  IN save([st EXCEPT !.sess = s2], oc)

add_interaction(st, question, answer, oc) ==
  LET interaction == [timestamp |-> isoformat(now),
                      question |-> question,
                      answer |-> str(answer)]
      s1 == update_activity(st.sess)
      s2 == [s1 EXCEPT !.current_conversation = Append(@, interaction)]
  IN save([st EXCEPT !.sess = s2], oc)

\* start_new_session that archives but does not clear the conversation
start_new_session_no_clear(st, oc) ==
  LET s == st.sess
      session_data ==
        [session_id |-> Len(s.history.all_sessions) + 1,
         start_time |-> isoformat(s.session_start_time),
         end_time |-> isoformat(now),
         conversation |-> s.current_conversation,
         message_count |-> Len(s.current_conversation)]
      s1 == IF s.current_conversation # <<>>
            THEN [s EXCEPT !.history.all_sessions = Append(@, session_data)]
            ELSE s
      s2 == [s1 EXCEPT !.session_start_time = now]
      s3 == update_activity(s2)
  IN save([st EXCEPT !.sess = s3], oc)

\* start_new_session numbering the archived sessions from 0
start_new_session_from_zero(st, oc) ==
  LET s == st.sess
      session_data ==
        [session_id |-> Len(s.history.all_sessions),
         start_time |-> isoformat(s.session_start_time),
         end_time |-> isoformat(now),
         conversation |-> s.current_conversation,
         message_count |-> Len(s.current_conversation)]
      s1 == IF s.current_conversation # <<>>
            THEN [s EXCEPT !.history.all_sessions = Append(@, session_data)]
            ELSE s
      s2 == [s1 EXCEPT !.current_conversation = <<>>,
                       !.session_start_time = now]
      s3 == update_activity(s2)
  IN save([st EXCEPT !.sess = s3], oc)

\* start_new_session archiving the current conversation even when empty
start_new_session_always_archive(st, oc) ==
  LET s == st.sess
      session_data ==
        [session_id |-> Len(s.history.all_sessions) + 1,
         start_time |-> isoformat(s.session_start_time),
         end_time |-> isoformat(now),
         conversation |-> s.current_conversation,
         message_count |-> Len(s.current_conversation)]
      s1 == [s EXCEPT !.history.all_sessions = Append(@, session_data)]
      s2 == [s1 EXCEPT !.current_conversation = <<>>,
                       !.session_start_time = now]
      s3 == update_activity(s2)
  IN save([st EXCEPT !.sess = s3], oc)

start_new_session(st, oc) ==
  LET s == st.sess
      session_data ==
        [session_id |-> Len(s.history.all_sessions) + 1,
         start_time |-> isoformat(s.session_start_time),
         end_time |-> isoformat(now),
         conversation |-> s.current_conversation,
         message_count |-> Len(s.current_conversation)]
      s1 == IF s.current_conversation # <<>>
            THEN [s EXCEPT !.history.all_sessions = Append(@, session_data)]
            ELSE s
      s2 == [s1 EXCEPT !.current_conversation = <<>>,
                       !.session_start_time = now]
      s3 == update_activity(s2)
  IN save([st EXCEPT !.sess = s3], oc)

(* ------------------------- NexiSessionManager ------------------------- *)
\* end_session that saves and does not start a new session
end_session_save_only(st, oc1, oc2) == save(save(st, oc1), oc2)

\* end_session on a user present in the map: save, then start_new_session
end_session(st, oc1, oc2) == start_new_session(save(st, oc1), oc2)

CallState(s) ==
  [sess |-> s, disk |-> disk,
   failed |-> IF s.user_id \in DOMAIN save_failed THEN save_failed[s.user_id] ELSE FALSE,
   faults |-> faults]

\* get_or_create_session building a new UserSession on every call
get_or_create_session_always_new(u) == UserSession(u, disk)

\* the session get_or_create_session returns
get_or_create_session(u) ==
  IF u \notin DOMAIN sessions THEN UserSession(u, disk)
  ELSE update_activity(sessions[u])

Commit(u, st) ==
  /\ st.faults <= MaxFaults
  /\ sessions' = (u :> st.sess) @@ sessions
  /\ disk' = st.disk
  /\ save_failed' = (u :> st.failed) @@ save_failed
  /\ faults' = st.faults

CanCall ==
  LET RECURSIVE Sum(_)
      Sum(S) == IF S = {} THEN 0
                ELSE LET x == CHOOSE x \in S : TRUE IN calls[x] + Sum(S \ {x})
  IN Sum(Users) < MaxCalls

GetOrCreateSession(u) ==
  /\ CanCall
  /\ sessions' = (u :> get_or_create_session(u)) @@ sessions
  /\ calls' = [calls EXCEPT ![u] = @ + 1]
  /\ last' = [op |-> "get_or_create_session", user |-> u, ret |-> TRUE, ended |-> {}]
  /\ UNCHANGED <<now, disk, is_running, cleanup_task, recorded, save_failed, faults>>
  /\ UNCHANGED <<rag, fn>>

HandleMessage(u, message, response) ==
  /\ CanCall
  /\ \E oc1 \in Outcomes, oc2, oc3 \in (IF is_goodbye_message(message) THEN Outcomes ELSE {"ok"}) :
       LET st0 == CallState(get_or_create_session(u))
           st1 == add_interaction(st0, message, response, oc1)
           bye == is_goodbye_message(message)
           st2 == IF bye THEN end_session(st1, oc2, oc3) ELSE st1
       IN /\ Commit(u, st2)
          /\ recorded' = [recorded EXCEPT ![u] =
                            Append(@, st1.sess.current_conversation[Len(st1.sess.current_conversation)])]
          /\ last' = [op |-> "handle_message", user |-> u, ret |-> bye,
                      ended |-> IF bye THEN {u} ELSE {}]
  /\ calls' = [calls EXCEPT ![u] = @ + 1]
  /\ UNCHANGED <<now, is_running, cleanup_task>>
  /\ UNCHANGED <<rag, fn>>

EndSession(u) ==
  /\ CanCall
  /\ IF u \in DOMAIN sessions
     THEN \E oc1, oc2 \in Outcomes :
            /\ Commit(u, end_session(CallState(sessions[u]), oc1, oc2))
            /\ last' = [op |-> "end_session", user |-> u, ret |-> TRUE, ended |-> {u}]
     ELSE /\ last' = [op |-> "end_session", user |-> u, ret |-> FALSE, ended |-> {}]
          /\ UNCHANGED <<sessions, disk, save_failed, faults>>
  /\ calls' = [calls EXCEPT ![u] = @ + 1]
  /\ UNCHANGED <<now, is_running, cleanup_task, recorded>>
  /\ UNCHANGED <<rag, fn>>

\* check_inactive_sessions taking the timeout for milliseconds
inactive_users_millis ==
  {u \in DOMAIN sessions : now - sessions[u].last_activity > timeout_seconds * 1000}

\* check_inactive_sessions comparing with >= instead of >
inactive_users_at_timeout ==
  {u \in DOMAIN sessions : now - sessions[u].last_activity >= timeout_seconds}

\* users check_inactive_sessions finds inactive
inactive_users ==
  {u \in DOMAIN sessions : now - sessions[u].last_activity > timeout_seconds}

\* _cleanup_loop: the sleep is over, check_inactive_sessions runs, and the
\* loop goes back to sleep while is_running holds.
CleanupLoop ==
  /\ cleanup_task.state = "sleeping"
  /\ now >= cleanup_task.wake
  /\ \E oc \in [inactive_users -> Outcomes \X Outcomes] :
       LET after(u) == end_session(CallState(sessions[u]), oc[u][1], oc[u][2])
           nfaults == faults + Cardinality({u \in inactive_users : oc[u][1] # "ok"})
                             + Cardinality({u \in inactive_users : oc[u][2] # "ok"})
       IN /\ nfaults <= MaxFaults
          /\ sessions' = [u \in DOMAIN sessions |->
                            IF u \in inactive_users THEN after(u).sess ELSE sessions[u]]
          /\ disk' = [u \in DOMAIN disk \cup {v \in inactive_users : v \in DOMAIN after(v).disk} |->
                            IF u \in inactive_users THEN after(u).disk[u] ELSE disk[u]]
          /\ save_failed' = [u \in DOMAIN save_failed \cup inactive_users |->
                            IF u \in inactive_users THEN after(u).failed ELSE save_failed[u]]
          /\ faults' = nfaults
  /\ last' = [op |-> "check_inactive_sessions", user |-> "", ret |-> TRUE,
              ended |-> inactive_users]
  /\ cleanup_task' = IF is_running
                      THEN [cleanup_task EXCEPT !.wake = now + cleanup_interval]
                      ELSE [cleanup_task EXCEPT !.state = "done"]
  /\ UNCHANGED <<now, is_running, recorded, calls>>
  /\ UNCHANGED <<rag, fn>>

\* the clock advances; a sleep that is over runs before time moves on
Tick ==
  /\ now + TickStep <= MaxTime
  /\ cleanup_task.state = "sleeping" => now < cleanup_task.wake
  /\ now' = now + TickStep
  /\ last' = [op |-> "tick", user |-> "", ret |-> TRUE, ended |-> {}]
  /\ UNCHANGED <<sessions, disk, is_running, cleanup_task, recorded,
                 calls, save_failed, faults>>
  /\ UNCHANGED <<rag, fn>>

\* NexiSessionManager.__init__ in a process with an empty session directory
SessionInit ==
  /\ now = 0
  /\ sessions = <<>>
  /\ disk = <<>>
  /\ is_running = TRUE
  /\ cleanup_task = [state |-> "sleeping", wake |-> cleanup_interval]
  /\ last = [op |-> "__init__", user |-> "", ret |-> TRUE, ended |-> {}]
  /\ recorded = [u \in Users |-> <<>>]
  /\ calls = [u \in Users |-> 0]
  /\ save_failed = <<>>
  /\ faults = 0

Init ==
  /\ SessionInit
  /\ rag = NoRag
  /\ fn = NoCall

Next ==
  \/ \E u \in Users : GetOrCreateSession(u)
  \/ \E u \in Users, q \in Questions, a \in Answers : HandleMessage(u, q, a)
  \/ \E u \in Users : EndSession(u)
  \/ CleanupLoop
  \/ Tick

Spec == Init /\ [][Next]_vars

(* ------------------------- stop_cleanup_task -------------------------- *)
\* stop_cleanup_task clearing is_running without cancelling the task
stop_cleanup_task_no_cancel(task) == task

\* stop_cleanup_task on the task: cancel() unless it is done; the
\* CancelledError reaches the coroutine at its await
stop_cleanup_task(task) ==
  IF task.state # "done" THEN [task EXCEPT !.state = "cancelling"] ELSE task

StopCleanupTask ==
  /\ is_running' = FALSE
  /\ cleanup_task' = stop_cleanup_task(cleanup_task)
  /\ last' = [op |-> "stop_cleanup_task", user |-> "", ret |-> TRUE, ended |-> {}]
  /\ UNCHANGED <<now, sessions, disk, recorded, calls, save_failed, faults>>
  /\ UNCHANGED <<rag, fn>>

\* _cleanup_loop: asyncio.sleep raises CancelledError, the loop breaks
CleanupCancelled ==
  /\ cleanup_task.state = "cancelling"
  /\ cleanup_task' = [cleanup_task EXCEPT !.state = "done"]
  /\ last' = [op |-> "cancelled", user |-> "", ret |-> TRUE, ended |-> {}]
  /\ UNCHANGED <<now, sessions, disk, is_running, recorded, calls, save_failed, faults>>
  /\ UNCHANGED <<rag, fn>>

NextShutdown ==
  \/ \E q \in Questions, a \in Answers : HandleMessage("u1", q, a)
  \/ CleanupLoop
  \/ Tick
  \/ StopCleanupTask
  \/ CleanupCancelled

SpecShutdown == Init /\ [][NextShutdown]_vars

(* -------------------- questions for the goodbye test ------------------ *)
GoodbyeQuestions ==
  { <<"h", "i">>,
    <<"O", "k", " ", "B", "y", "e">>,
    <<"G", "O", "O", "D", "B", "Y", "E">>,
    <<" ", "b", "y", "e", " ">>,
    <<"b", "y", " ", "e">>,
    <<"S", "e", "e", " ", "Y", "o", "u">>,
    <<"s", "e", "e", "y", "o", "u">>,
    <<"E", "x", "i", "t", " ", "n", "o", "w">>,
    <<"t", "h", "a", "n", "k", " ", "y", "o", "u">>,
    <<"F", "a", "r", "e", "w", "e", "l", "l">>,
    <<"T", "T", "Y", "L">>,
    <<"b", "u", "y">>,
    <<"t", "a", "l", "k", " ", "t", "o", " ", "y", "o", "u", " ", "l", "a", "t", "e", "r">>,
    <<"q", "u", "i", "t">>,
    <<>> }

\* one user talks to the manager, with any of the questions above, before
\* the first sleep of the cleanup loop is over
NextGoodbye ==
  \E q \in GoodbyeQuestions, a \in Answers : HandleMessage("u1", q, a)

SpecGoodbye == Init /\ [][NextGoodbye]_vars

(***************************************************************************)
(* flatten_json (BACKEND/rag/json_engine.py).  A parsed JSON value is a    *)
(* record [kind, v, keys, items]: a scalar has kind "str", "num" or "null" *)
(* and its text in v; a list has its elements in items; a dict has its     *)
(* keys, in document order, in keys and the values, in the same order, in  *)
(* items.                                                                  *)
(***************************************************************************)
JStr(t) == [kind |-> "str", v |-> t, keys |-> <<>>, items |-> <<>>]
JNum(t) == [kind |-> "num", v |-> t, keys |-> <<>>, items |-> <<>>]
JNull == [kind |-> "null", v |-> "", keys |-> <<>>, items |-> <<>>]
JList(xs) == [kind |-> "list", v |-> "", keys |-> <<>>, items |-> xs]
JDict(ks, xs) == [kind |-> "dict", v |-> "", keys |-> ks, items |-> xs]

\* key in data
has_key(data, k) == \E i \in 1..Len(data.keys) : data.keys[i] = k

\* data.get(k, default)
get(data, k, default) ==
  IF has_key(data, k)
  THEN data.items[CHOOSE i \in 1..Len(data.keys) : data.keys[i] = k]
  ELSE default

\* str(x) / "{x}" in an f-string; the repr of a container is not spelled out
format(x) ==
  CASE x.kind = "str" -> x.v
    [] x.kind = "num" -> x.v
    [] x.kind = "null" -> "None"
    [] x.kind = "list" -> "[...]"
    [] x.kind = "dict" -> "{...}"

\* bool(x)
truthy(x) ==
  CASE x.kind = "str" -> x.v # ""
    [] x.kind = "num" -> x.v # "0"
    [] x.kind = "null" -> FALSE
    [] x.kind = "list" -> x.items # <<>>
    [] x.kind = "dict" -> x.keys # <<>>

\* x or y
py_or(x, y) == IF truthy(x) THEN x ELSE y

\* the profile test asking for title, department and phd together
is_profile_all(data) ==
  has_key(data, "name")
  /\ (has_key(data, "title") /\ has_key(data, "department") /\ has_key(data, "phd"))

is_profile(data) ==
  has_key(data, "name")
  /\ (has_key(data, "title") \/ has_key(data, "department") \/ has_key(data, "phd"))

profile_text(data) ==
  LET name == get(data, "name", JStr(""))
      title == get(data, "title", JStr(""))
      dept == get(data, "department", JStr(""))
      phd == get(data, "phd", JStr(""))
      email == get(data, "email", JStr(""))
  IN format(name) \o " is a " \o format(title) \o " in the " \o format(dept)
     \o " department. " \o format(name) \o " holds " \o format(phd)
     \o ". Email: " \o format(email) \o "."

is_event(data) ==
  (has_key(data, "event") \/ has_key(data, "name"))
  /\ (has_key(data, "date") \/ has_key(data, "from_date"))

event_text(data) ==
  LET name == py_or(get(data, "event", JNull), get(data, "name", JNull))
      date == py_or(get(data, "date", JNull),
                    JStr(format(get(data, "from_date", JNull)) \o " to "
                         \o format(get(data, "to_date", JNull))))
  IN format(name) \o " is on " \o format(date) \o "."

\* parent_key only carries the key path and is in no emitted text
RECURSIVE flatten_json(_), flatten_each(_)
flatten_json(data) ==
  IF data.kind = "dict"
  THEN IF is_profile(data) THEN <<profile_text(data)>>
       ELSE IF is_event(data) THEN <<event_text(data)>>
       ELSE flatten_each(data.items)
  ELSE IF data.kind = "list" THEN flatten_each(data.items)
  ELSE <<format(data)>>

flatten_each(xs) ==
  IF xs = <<>> THEN <<>> ELSE flatten_json(Head(xs)) \o flatten_each(Tail(xs))

(* -------------------- inputs of flatten_json -------------------------- *)
FieldOrder == <<"name", "title", "department", "phd", "email",
                "event", "date", "from_date", "to_date", "room">>

FieldValue(k) ==
  CASE k = "name" -> JStr("Sem Break")
    [] k = "title" -> JStr("Professor")
    [] k = "department" -> JStr("CS")
    [] k = "phd" -> JStr("PhD in AI")
    [] k = "email" -> JStr("x@x.edu")
    [] k = "event" -> JStr("Dussehra")
    [] k = "date" -> JStr("2024-10-12")
    [] k = "from_date" -> JStr("2024-12-20")
    [] k = "to_date" -> JStr("2025-01-05")
    [] k = "room" -> JNum("101")

\* the object with the fields S, in FieldOrder
ObjectOf(S) ==
  LET ks == SelectSeq(FieldOrder, LAMBDA k : k \in S)
  IN JDict(ks, [i \in 1..Len(ks) |-> FieldValue(ks[i])])

FlatObjects == {ObjectOf(S) : S \in SUBSET {FieldOrder[i] : i \in 1..Len(FieldOrder)}}

SmallValues ==
  {JStr("a"), JNum("7"), JNull, JList(<<>>), JList(<<JStr("b"), JNum("8")>>),
   JDict(<<"room", "floor">>, <<JNum("101"), JStr("2")>>),
   ObjectOf({"name", "from_date"}), ObjectOf({"name", "title"}),
   ObjectOf({"event", "date"})}

NestedValues ==
  {JList(<<x, y>>) : x, y \in SmallValues}
  \cup {JDict(<<"first", "second">>, <<x, y>>) : x, y \in SmallValues}
  \cup {JDict(<<"holidays">>, <<JList(<<x, y>>)>>) : x, y \in SmallValues}

FlattenInputs == FlatObjects \cup SmallValues \cup NestedValues

\* one call of flatten_json on a parsed document
FlattenInit ==
  /\ SessionInit
  /\ rag = NoRag
  /\ \E d \in FlattenInputs : fn = [op |-> "flatten_json", in |-> d, out |-> <<>>, done |-> FALSE]

FlattenJson ==
  /\ fn.op = "flatten_json"
  /\ ~fn.done
  /\ fn' = [fn EXCEPT !.out = flatten_json(fn.in), !.done = TRUE]
  /\ UNCHANGED session_vars
  /\ UNCHANGED rag

SpecFlatten == FlattenInit /\ [][FlattenJson]_vars

(***************************************************************************)
(* The RAG engines (BACKEND/rag/pdf_engine.py, BACKEND/rag/json_engine.py) *)
(* A Document is [page_content, source, index, score]: index is its        *)
(* start_index / item_index metadata and score is what the cross-encoder   *)
(* gives it for the query.  There is one query; a vector store answers it  *)
(* with its documents in similarity order, so a store is kept as the       *)
(* sequence of its documents in that order.                                *)
(***************************************************************************)
MaxRagSteps == 3     \* engine calls made in one run

\* defaults of get_pdf_rag_answer_async and get_json_rag_answer_async
pdf_k == 5
pdf_top_n == 2
json_k == 10
json_top_n == 5

Query == "when is the semester break"

Doc(text, source, index, score) ==
  [page_content |-> text, source |-> source, index |-> index, score |-> score]

Min(a, b) == IF a <= b THEN a ELSE b

\* xs[:n]
Take(xs, n) == SubSeq(xs, 1, Min(n, Len(xs)))

\* sep.join(texts)
RECURSIVE join(_, _)
join(sep, texts) ==
  IF texts = <<>> THEN ""
  ELSE IF Len(texts) = 1 THEN texts[1]
  ELSE texts[1] \o sep \o join(sep, Tail(texts))

\* sorted(docs)[::-1] on the score: descending, but documents of equal score
\* come out in reverse retrieval order
RECURSIVE sorted_then_reversed(_)
sorted_then_reversed(docs) ==
  IF docs = <<>> THEN <<>>
  ELSE LET front == sorted_then_reversed(SubSeq(docs, 1, Len(docs) - 1))
           x == docs[Len(docs)]
           n == Cardinality({i \in 1..Len(front) : front[i].score > x.score})
       IN SubSeq(front, 1, n) \o <<x>> \o SubSeq(front, n + 1, Len(front))

\* sorted(zip(docs, scores), key=score, reverse=True): descending and stable
RECURSIVE sorted_by_score(_)
sorted_by_score(docs) ==
  IF docs = <<>> THEN <<>>
  ELSE LET front == sorted_by_score(SubSeq(docs, 1, Len(docs) - 1))
           x == docs[Len(docs)]
           n == Cardinality({i \in 1..Len(front) : front[i].score >= x.score})
       IN SubSeq(front, 1, n) \o <<x>> \o SubSeq(front, n + 1, Len(front))

\* what an engine call gives back: a value, or the exception it raised
Returned(op, value, candidates, kept) ==
  [op |-> op, status |-> "returned", error |-> "", value |-> value,
   candidates |-> candidates, kept |-> kept]
Raised(op, error) ==
  [op |-> op, status |-> "raised", error |-> error, value |-> <<>>,
   candidates |-> <<>>, kept |-> <<>>]
NoResult == Raised("none", "")

\* retriever.get_relevant_documents(query) with search_kwargs k
retrieve(store, k) == Take(store, k)

\* initialize_pdf_rag_blocking: the globals after it; loading the
\* cross-encoder can fail, after vector_store has been assigned
initialize_pdf_rag_blocking(r, reranker_loads) ==
  [r EXCEPT !.vector_store = [set |-> TRUE, docs |-> r.pdf_corpus],
            !.reranker = IF reranker_loads THEN TRUE ELSE @]

\* the list of sources with repeated sources dropped
RECURSIVE distinct(_)
distinct(xs) ==
  IF xs = <<>> THEN <<>>
  ELSE LET front == distinct(SubSeq(xs, 1, Len(xs) - 1)) IN
       IF \E i \in 1..Len(front) : front[i] = xs[Len(xs)] THEN front
       ELSE Append(front, xs[Len(xs)])

\* the bundle with each source listed once
pdf_bundle_distinct(top_docs) ==
  [context |-> join("\n\n", [i \in 1..Len(top_docs) |-> top_docs[i].page_content]),
   sources |-> distinct([i \in 1..Len(top_docs) |-> top_docs[i].source])]

pdf_bundle(top_docs) ==
  [context |-> join("\n\n", [i \in 1..Len(top_docs) |-> top_docs[i].page_content]),
   sources |-> [i \in 1..Len(top_docs) |-> top_docs[i].source]]

\* the no-reranker branch taking top_n documents from the end
first_top_n_from_end(docs, top_n) ==
  SubSeq(docs, Len(docs) - Min(top_n, Len(docs)) + 1, Len(docs))

\* docs[:top_n]
first_top_n(docs, top_n) == Take(docs, top_n)

\* get_pdf_rag_answer_async without the test of vector_store
get_pdf_rag_answer_async_unguarded(r, query, k, top_n) ==
  LET op == "get_pdf_rag_answer_async"
      docs == retrieve(r.vector_store.docs, k)
  IN IF docs = <<>>
     THEN Returned(op, [context |-> "", sources |-> <<>>], docs, <<>>)
     ELSE LET top_docs == IF r.reranker
                          THEN first_top_n(sorted_by_score(docs), top_n)
                          ELSE first_top_n(docs, top_n)
          IN Returned(op, pdf_bundle(top_docs), docs, top_docs)

get_pdf_rag_answer_async(r, query, k, top_n) ==
  LET op == "get_pdf_rag_answer_async" IN
  IF ~r.vector_store.set
  THEN Raised(op, "PDF RAG engine not initialized. Call initialize_pdf_rag() first.")
  ELSE LET docs == retrieve(r.vector_store.docs, k) IN
       IF docs = <<>>
       THEN Returned(op, [context |-> "", sources |-> <<>>], docs, <<>>)
       ELSE LET top_docs == IF r.reranker
                            THEN first_top_n(sorted_by_score(docs), top_n)
                            ELSE first_top_n(docs, top_n)
            IN Returned(op, pdf_bundle(top_docs), docs, top_docs)

(* ------------------------- record indexer ----------------------------- *)
\* a file of the JSON directory: its name, whether json.load parses it, and
\* the parsed value
File(fname, parses, data) == [fname |-> fname, parses |-> parses, data |-> data]

\* fname.endswith(".json")
is_json_name(fname) ==
  Len(fname) >= Len(".json")
  /\ SubSeq(fname, Len(fname) - Len(".json") + 1, Len(fname)) = ".json"

\* the Documents of one file, were a file that does not parse read as null
file_documents_no_skip(f) ==
  IF ~is_json_name(f.fname) THEN <<>>
  ELSE LET flattened == flatten_json(f.data)
       IN [i \in 1..Len(flattened) |->
             Doc(flattened[i], f.fname, i - 1, 0)]

\* the Documents of one file
file_documents(f) ==
  IF ~is_json_name(f.fname) \/ ~f.parses THEN <<>>
  ELSE LET flattened == flatten_json(f.data)
       IN [i \in 1..Len(flattened) |->
             Doc(flattened[i], f.fname, i - 1, 0)]

\* load_json_documents over the directory listing
RECURSIVE load_json_documents(_)
load_json_documents(json_dir) ==
  IF json_dir = <<>> THEN <<>>
  ELSE file_documents(Head(json_dir)) \o load_json_documents(Tail(json_dir))

\* each document of docs, n times over, equal documents side by side: the
\* similarity order of a collection that holds n copies of docs
RECURSIVE copies_of(_, _)
copies_of(docs, n) ==
  IF docs = <<>> THEN <<>>
  ELSE [i \in 1..n |-> Head(docs)] \o copies_of(Tail(docs), n)

\* initialize_json_rag: Chroma.from_documents adds the documents, under
\* fresh ids, to the collection persisted in persist_dir
initialize_json_rag(r) ==
  LET docs == load_json_documents(r.json_dir) IN
  IF docs = <<>>
  THEN [r EXCEPT !.out = Raised("initialize_json_rag", "No JSON docs found")]
  ELSE [r EXCEPT !.json_copies = @ + 1,
                 !.json_vector_store =
                    [set |-> TRUE, docs |-> copies_of(docs, r.json_copies + 1)],
                 !.out = Returned("initialize_json_rag", <<>>, <<>>, <<>>)]

get_json_rag_answer_async(r, query, k, top_n, include_embeddings) ==
  LET op == "get_json_rag_answer_async" IN
  IF ~r.json_vector_store.set
  THEN Raised(op, "JSON RAG engine not initialized. Call initialize_json_rag() first.")
  ELSE LET docs == retrieve(r.json_vector_store.docs, k)
           kept == first_top_n(docs, top_n)
           results == [i \in 1..Len(kept) |->
                         [source |-> kept[i].source,
                          page_content |-> kept[i].page_content,
                          metadata |-> [source |-> kept[i].source,
                                        item_index |-> kept[i].index]]]
       IN Returned(op,
                   [query |-> query,
                    timestamp |-> isoformat(now),
                    results |-> results,
                    combined_context |->
                      join("\n\n", [i \in 1..Len(results) |-> results[i].page_content]),
                    sources |-> [i \in 1..Len(results) |-> results[i].source]],
                   docs, kept)

(* --------------------------- corpora ---------------------------------- *)
ChunkPool ==
  { Doc("A", "f1.pdf", 0, 2), Doc("B", "f1.pdf", 900, 3),
    Doc("C", "f2.pdf", 0, 2), Doc("", "f2.pdf", 900, 1),
    Doc("E", "f3.pdf", 0, 1) }

\* the PDF collection in similarity order: up to three chunks in any order,
\* or one of two collections larger than k
PdfCorpora ==
  {<<>>}
  \cup {<<a>> : a \in ChunkPool}
  \cup {c \in {<<a, b>> : a, b \in ChunkPool} : c[1] # c[2]}
  \cup {c \in {<<a, b, d>> : a, b, d \in ChunkPool} :
          c[1] # c[2] /\ c[1] # c[3] /\ c[2] # c[3]}
  \cup { << Doc("A", "f1.pdf", 0, 2), Doc("B", "f1.pdf", 900, 3),
            Doc("C", "f2.pdf", 0, 2), Doc("", "f2.pdf", 900, 1),
            Doc("E", "f3.pdf", 0, 1), Doc("F", "f3.pdf", 900, 3) >> }

FilePool ==
  { File("calendar.json", TRUE,
         JDict(<<"holidays">>,
               <<JList(<<ObjectOf({"event", "date"}),
                         ObjectOf({"name", "from_date", "to_date"})>>)>>)),
    File("faculty.json", TRUE, JList(<<ObjectOf({"name", "title", "email"})>>)),
    File("broken.json", FALSE, JNull),
    File("empty.json", TRUE, JList(<<>>)),
    File("notes.txt", TRUE, JStr("not read")) }

\* os.listdir gives the files in any order
JsonDirs ==
  {<<>>}
  \cup {<<a>> : a \in FilePool}
  \cup {c \in {<<a, b>> : a, b \in FilePool} : c[1] # c[2]}
  \cup {c \in {<<a, b, d>> : a, b, d \in FilePool} :
          c[1] # c[2] /\ c[1] # c[3] /\ c[2] # c[3]}

DefaultCorpus == << Doc("A", "f1.pdf", 0, 2), Doc("B", "f1.pdf", 900, 3) >>
DefaultDir == << File("calendar.json", TRUE,
                      JDict(<<"holidays">>,
                            <<JList(<<ObjectOf({"event", "date"}),
                                      ObjectOf({"name", "from_date", "to_date"})>>)>>)) >>

\* the module globals before any initialization, over a PDF collection and
\* a JSON directory
RagGlobals(corpus, dir) ==
  [op |-> "rag",
   pdf_corpus |-> corpus,
   vector_store |-> [set |-> FALSE, docs |-> <<>>],
   reranker |-> FALSE,
   json_dir |-> dir,
   json_copies |-> 0,
   json_vector_store |-> [set |-> FALSE, docs |-> <<>>],
   out |-> NoResult,
   steps |-> 0]

RetrieveInit ==
  /\ SessionInit
  /\ fn = NoCall
  /\ \/ \E c \in PdfCorpora : rag = RagGlobals(c, DefaultDir)
     \/ \E d \in JsonDirs : rag = RagGlobals(DefaultCorpus, d)

RagStep(r) ==
  /\ rag.steps < MaxRagSteps
  /\ rag' = [r EXCEPT !.steps = rag.steps + 1]
  /\ UNCHANGED session_vars
  /\ UNCHANGED fn

InitializePdfRag ==
  \E reranker_loads \in BOOLEAN :
    RagStep([initialize_pdf_rag_blocking(rag, reranker_loads) EXCEPT
               !.out = IF reranker_loads
                       THEN Returned("initialize_pdf_rag", <<>>, <<>>, <<>>)
                       ELSE Raised("initialize_pdf_rag", "CrossEncoder")])

InitializeJsonRag == RagStep(initialize_json_rag(rag))

GetPdfRagAnswer ==
  RagStep([rag EXCEPT !.out = get_pdf_rag_answer_async(rag, Query, pdf_k, pdf_top_n)])

GetJsonRagAnswer ==
  RagStep([rag EXCEPT !.out = get_json_rag_answer_async(rag, Query, json_k, json_top_n, FALSE)])

NextRetrieve ==
  \/ InitializePdfRag
  \/ InitializeJsonRag
  \/ GetPdfRagAnswer
  \/ GetJsonRagAnswer

SpecRetrieve == RetrieveInit /\ [][NextRetrieve]_vars

(***************************************************************************)
(* The function tools (BACKEND/tools/rag_tools.py): get_rag_answer and     *)
(* get_rag_answer_json.  A call creates the status task updating(), runs   *)
(* the retrieval, and in its finally block cancels and awaits the status   *)
(* task, sends the completion reply, and only then hands its result or     *)
(* its ToolError to the caller.  The two coroutines interleave at their    *)
(* awaits.  log lists the generate_reply calls of the current tool call    *)
(* and its delivery, in order.                                             *)
(***************************************************************************)
MaxToolCalls == 2

ToolReturned(value) == [status |-> "returned", error |-> "", value |-> value]
ToolError(message) == [status |-> "raised", error |-> message, value |-> <<>>]
NoOutcome == [status |-> "none", error |-> "", value |-> <<>>]

\* not context_text
is_empty(text) == text = ""

\* context_text.strip() == ""
is_blank(text) == \A i \in 1..Len(text) : SubSeq(text, i, i) \in Whitespace

\* the try/except of get_rag_answer without the test of context_text
get_rag_answer_unchecked(query, result) ==
  IF result.status = "raised"
  THEN ToolError("Error retrieving RAG answer: " \o result.error)
  ELSE ToolReturned([query |-> query, context |-> result.value.context])

\* the try/except of get_rag_answer, applied to what the engine gave
get_rag_answer(query, result) ==
  IF result.status = "raised"
  THEN ToolError("Error retrieving RAG answer: " \o result.error)
  ELSE LET context_text == result.value.context IN
       IF is_empty(context_text)
       THEN ToolError("Error retrieving RAG answer: "
                      \o "No relevant information found.")
       ELSE ToolReturned([query |-> query, context |-> context_text])

\* the try/except of get_rag_answer_json, applied to what the engine gave
get_rag_answer_json(query, result) ==
  IF result.status = "raised"
  THEN ToolError("Error retrieving calendar/faculty information: " \o result.error)
  ELSE LET context_text == result.value.combined_context IN
       IF is_empty(context_text) \/ is_blank(context_text)
       THEN ToolError("Error retrieving calendar/faculty information: "
                      \o "No relevant information found in calendar or faculty data.")
       ELSE ToolReturned([query |-> query, context |-> context_text])

\* a status task taken for done whatever its state
done_always(r) == TRUE

\* status_task.done()
done(r) == r.status_task \in {"done", "cancelled"}

\* a finally block that sends the completion reply without stopping the
\* status task
finally_block_no_cancel(r) ==
  [r EXCEPT !.log = Append(@, "completion"), !.main = "completion_reply"]

\* the finally block up to its first await: cancel and await a status task
\* that is not done, else send the completion reply
finally_block(r) ==
  IF ~done(r)
  THEN [r EXCEPT !.must_cancel = TRUE, !.main = "await_status_task"]
  ELSE [r EXCEPT !.log = Append(@, "completion"), !.main = "completion_reply"]

\* the engine globals together with the state of the tool call
ToolState(g) ==
  g @@ [tool |-> "none", main |-> "idle", status_task |-> "none",
        must_cancel |-> FALSE, log |-> <<>>, outcome |-> NoOutcome,
        delivered |-> NoOutcome]

ToolCorpora ==
  { <<>>, <<Doc("", "f1.pdf", 0, 1)>>, <<Doc("A", "f1.pdf", 0, 2), Doc("B", "f1.pdf", 900, 3)>> }

ToolDirs ==
  { <<>>,
    <<File("calendar.json", TRUE, JList(<<ObjectOf({"event", "date"})>>))>>,
    <<File("blank.json", TRUE, JList(<<JStr(" ")>>))>>,
    <<File("void.json", TRUE, JList(<<JStr("")>>))>> }

\* at start-up the PDF engine was not initialized, or was initialized with
\* the cross-encoder loading or failing to load
ToolInit ==
  /\ SessionInit
  /\ fn = NoCall
  /\ \E c \in ToolCorpora, d \in ToolDirs :
       \/ rag = ToolState(RagGlobals(c, d))
       \/ \E reranker_loads \in BOOLEAN :
            rag = ToolState(initialize_pdf_rag_blocking(RagGlobals(c, d), reranker_loads))

ToolStep(r) ==
  /\ rag' = r
  /\ UNCHANGED session_vars
  /\ UNCHANGED fn

\* a new tool call: create_task(updating()) and the run up to the first await
NewCall(tool) ==
  [rag EXCEPT !.tool = tool, !.status_task = "created", !.must_cancel = FALSE,
              !.log = <<>>, !.outcome = NoOutcome, !.delivered = NoOutcome,
              !.out = NoResult, !.steps = @ + 1]

CallGetRagAnswer ==
  /\ rag.main = "idle"
  /\ rag.steps < MaxToolCalls
  /\ LET r == NewCall("get_rag_answer") IN
     IF ~r.vector_store.set
     THEN LET result == get_pdf_rag_answer_async(r, Query, pdf_k, pdf_top_n)
          IN ToolStep(finally_block([r EXCEPT !.out = result,
                                              !.outcome = get_rag_answer(Query, result)]))
     ELSE ToolStep([r EXCEPT !.main = "retrieving"])

CallGetRagAnswerJson ==
  /\ rag.main = "idle"
  /\ rag.steps < MaxToolCalls
  /\ LET r == initialize_json_rag(NewCall("get_rag_answer_json")) IN
     IF r.out.status = "raised"
     THEN ToolStep(finally_block([r EXCEPT !.outcome = get_rag_answer_json(Query, r.out)]))
     ELSE ToolStep([r EXCEPT !.main = "retrieving"])

\* the retrieval thread ends, with the documents or with an exception
RetrievalEnds ==
  /\ rag.main = "retrieving"
  /\ \E fails \in BOOLEAN :
       LET result ==
             IF rag.tool = "get_rag_answer"
             THEN IF fails THEN Raised("get_pdf_rag_answer_async", "retriever failed")
                  ELSE get_pdf_rag_answer_async(rag, Query, pdf_k, pdf_top_n)
             ELSE IF fails THEN Raised("get_json_rag_answer_async", "retriever failed")
                  ELSE get_json_rag_answer_async(rag, Query, json_k, json_top_n, FALSE)
           outcome == IF rag.tool = "get_rag_answer"
                      THEN get_rag_answer(Query, result)
                      ELSE get_rag_answer_json(Query, result)
       IN ToolStep(finally_block([rag EXCEPT !.out = result, !.outcome = outcome]))

\* await status_task returns
StatusTaskAwaited ==
  /\ rag.main = "await_status_task"
  /\ done(rag)
  /\ ToolStep([rag EXCEPT !.log = Append(@, "completion"), !.main = "completion_reply"])

\* the completion reply is over (or raised): the call's result or ToolError
\* reaches the caller
Deliver ==
  /\ rag.main = "completion_reply"
  /\ ToolStep([rag EXCEPT !.log = Append(@, "delivered"), !.delivered = rag.outcome,
                          !.main = "idle"])

\* updating(): first step, up to asyncio.sleep(delay)
UpdatingStarts ==
  /\ rag.status_task = "created"
  /\ ~rag.must_cancel
  /\ ToolStep([rag EXCEPT !.status_task = "sleeping"])

\* updating(): the sleep is over, the progress reply is sent
UpdatingWakes ==
  /\ rag.status_task = "sleeping"
  /\ ~rag.must_cancel
  /\ ToolStep([rag EXCEPT !.status_task = "replying", !.log = Append(@, "progress")])

\* updating(): the progress reply is over (or raised)
UpdatingEnds ==
  /\ rag.status_task = "replying"
  /\ ~rag.must_cancel
  /\ ToolStep([rag EXCEPT !.status_task = "done"])

\* updating(): CancelledError is thrown into the task at its await
UpdatingCancelled ==
  /\ rag.status_task \in {"created", "sleeping", "replying"}
  /\ rag.must_cancel
  /\ ToolStep([rag EXCEPT !.status_task = "cancelled"])

NextTool ==
  \/ CallGetRagAnswer
  \/ CallGetRagAnswerJson
  \/ RetrievalEnds
  \/ StatusTaskAwaited
  \/ Deliver
  \/ UpdatingStarts
  \/ UpdatingWakes
  \/ UpdatingEnds
  \/ UpdatingCancelled

SpecTool == ToolInit /\ [][NextTool]_vars

(***************************************************************************)
(* entrypoint (BACKEND/main.py): connecting to the LiveKit room.  The      *)
(* transport's answers to the successive ctx.connect() calls are drawn at  *)
(* the start: script[i] tells whether the i-th call succeeds.              *)
(***************************************************************************)
max_retries == 5

\* a delay that starts at 2 seconds
backoff_from_two(attempt) == Min(2 ^ (attempt + 1), 30)

\* min(2 ** attempt, 30)
backoff(attempt) == Min(2 ^ attempt, 30)

ConnectInit ==
  /\ SessionInit
  /\ rag = NoRag
  /\ \E script \in [1..max_retries -> BOOLEAN] :
       fn = [op |-> "entrypoint", script |-> script, pc |-> "connect",
             attempt |-> 0, connects |-> 0, delays |-> <<>>, elapsed |-> 0]

ConnectStep(f) ==
  /\ fn' = f
  /\ UNCHANGED session_vars
  /\ UNCHANGED rag

\* await ctx.connect() inside the for loop: break on success
Connect ==
  /\ fn.pc = "connect"
  /\ ConnectStep([fn EXCEPT !.connects = @ + 1,
                            !.pc = IF fn.script[fn.attempt + 1] THEN "connected"
                                   ELSE "failed"])

\* except Exception: the warning and asyncio.sleep, then the next round of
\* the for loop, or its else branch when range(max_retries) is used up
Backoff ==
  /\ fn.pc = "failed"
  /\ ConnectStep([fn EXCEPT !.delays = Append(@, backoff(fn.attempt)),
                            !.elapsed = @ + backoff(fn.attempt),
                            !.attempt = @ + 1,
                            !.pc = IF fn.attempt + 1 < max_retries THEN "connect"
                                   ELSE "exhausted"])

\* else: raise RuntimeError, logged and re-raised by the outer except
RaiseFatal ==
  /\ fn.pc = "exhausted"
  /\ ConnectStep([fn EXCEPT !.pc = "fatal"])

\* await session.start(...)
StartSession ==
  /\ fn.pc = "connected"
  /\ ConnectStep([fn EXCEPT !.pc = "started"])

NextConnect ==
  \/ Connect
  \/ Backoff
  \/ RaiseFatal
  \/ StartSession

SpecConnect == ConnectInit /\ [][NextConnect]_vars

\* the poller is asleep and its sleep is not over: no poll is due
PollerSettled ==
  /\ is_running
  /\ cleanup_task.state = "sleeping"
  /\ now < cleanup_task.wake

\* datetime.fromisoformat: the time an isoformat text stands for
fromisoformat(x) == x[2]

(* ------------------------- shorthands for the claims ------------------ *)
Conversation(u) == sessions[u].current_conversation
AllSessions(u) == sessions[u].history.all_sessions

RECURSIVE Concat(_)
Concat(ss) == IF ss = <<>> THEN <<>> ELSE Head(ss) \o Concat(Tail(ss))

\* every interaction a session holds: the archives in order, then the
\* current conversation
Held(s) ==
  Concat([i \in 1..Len(s.history.all_sessions) |->
            s.history.all_sessions[i].conversation]) \o s.current_conversation

IsPrefix(a, b) == Len(a) <= Len(b) /\ SubSeq(b, 1, Len(a)) = a

\* in a step that ran a rollover for u: the current conversation the
\* rollover found (for a goodbye, the one add_interaction had just extended)
PreRollover(u) ==
  IF last'.op = "handle_message"
  THEN Append(IF u \in DOMAIN sessions THEN Conversation(u) ELSE <<>>,
              recorded'[u][Len(recorded'[u])])
  ELSE Conversation(u)

(* ------------------------------- C1 ----------------------------------- *)
\* C1: a rollover (goodbye, idle timeout or end_session) that finds a
\* non-empty current conversation appends exactly one archived session,
\* whose conversation is that conversation and whose message_count is its
\* length, keeps the earlier archived sessions as they were, and leaves the
\* current conversation empty with session_start_time set to now.
C1_RolloverArchives ==
  [][\A u \in last'.ended :
       LET pre == PreRollover(u)
           old == IF u \in DOMAIN sessions THEN AllSessions(u) ELSE <<>>
           new == sessions'[u].history.all_sessions
       IN pre # <<>> =>
            /\ Len(new) = Len(old) + 1
            /\ SubSeq(new, 1, Len(old)) = old
            /\ new[Len(new)].conversation = pre
            /\ new[Len(new)].message_count = Len(pre)
            /\ sessions'[u].current_conversation = <<>>
            /\ sessions'[u].session_start_time = now']_vars

\* an idle-timeout rollover has archived a second session of a user whose
\* first session ended with a goodbye
C1_Witness ==
  /\ last.op = "check_inactive_sessions"
  /\ \E u \in last.ended :
       /\ Len(AllSessions(u)) = 2
       /\ is_goodbye_message(AllSessions(u)[1].conversation[1].question)
       /\ Conversation(u) = <<>>

(* ------------------------------- C2 ----------------------------------- *)
Numbered ==
  \A u \in DOMAIN sessions :
    \A i \in 1..Len(AllSessions(u)) : AllSessions(u)[i].session_id = i

ArchivesKept ==
  \A u \in DOMAIN sessions :
    /\ u \in DOMAIN sessions'
    /\ IsPrefix(AllSessions(u), sessions'[u].history.all_sessions)

\* C2: the archived sessions of every session are numbered 1, 2, 3, ... in
\* list order, and no step removes, reorders or renumbers one: the list
\* before a step is a prefix of the list after it.
C2_ConsecutiveIds == []Numbered /\ [][ArchivesKept]_vars

\* a session with two archived sessions, the second one archived by the
\* step that just ran
C2_Witness ==
  \E u \in DOMAIN sessions :
    /\ u \in last.ended
    /\ Len(AllSessions(u)) = 2
    /\ AllSessions(u)[2].session_id = 2

(* ------------------------------- C3 ----------------------------------- *)
\* C3: whatever the order in which handle_message calls and polls of the
\* cleanup loop run, every interaction recorded for a user is held exactly
\* once and in recording order: the archived conversations followed by the
\* current conversation are the recorded interactions.
C3_NoneLostNoneDuplicated ==
  \A u \in DOMAIN sessions : Held(sessions[u]) = recorded[u]

\* two interactions of one user, the first archived by the poller and the
\* second in the current conversation
C3_Witness ==
  \E u \in DOMAIN sessions :
    /\ Len(recorded[u]) = 2
    /\ Len(AllSessions(u)) = 1
    /\ Len(Conversation(u)) = 1
    /\ ~is_goodbye_message(recorded[u][1].question)

(* ------------------------------- C4 ----------------------------------- *)
\* the user's whole contact with the manager is one handle_message call
\* with a message that is no goodbye
SentOneMessage(u) ==
  /\ calls[u] = 1
  /\ Len(recorded[u]) = 1
  /\ ~is_goodbye_message(recorded[u][1].question)

\* C4: with cleanup_interval 10 and timeout_seconds 30, a user who sent one
\* message at t0 and nothing else has, once the clock shows t0 + 40 and the
\* poll due by then has run, been rolled over exactly once: all_sessions
\* has length 1, holds that message, the current conversation is empty and
\* the session started at the end of the archived one.
C4_IdleTimeout ==
  \A u \in DOMAIN sessions :
    LET t0 == fromisoformat(recorded[u][1].timestamp) IN
    ( /\ SentOneMessage(u)
      /\ PollerSettled
      /\ now >= t0 + timeout_seconds + cleanup_interval
      /\ now < t0 + 2 * timeout_seconds )
    => /\ Len(AllSessions(u)) = 1
       /\ AllSessions(u)[1].conversation = recorded[u]
       /\ Conversation(u) = <<>>
       /\ isoformat(sessions[u].session_start_time) = AllSessions(u)[1].end_time

\* 40 seconds after the only message of a user the poller has rolled the
\* user over
C4_Witness ==
  \E u \in DOMAIN sessions :
    /\ SentOneMessage(u)
    /\ PollerSettled
    /\ now >= fromisoformat(recorded[u][1].timestamp) + timeout_seconds + cleanup_interval
    /\ Len(AllSessions(u)) = 1
    /\ Conversation(u) = <<>>

(* ------------------------------- C5 ----------------------------------- *)
OkBye == <<"o", "k", " ", "b", "y", "e">>

\* C5: a handle_message call whose question reads "ok bye" (in any case)
\* returns True, and whenever handle_message returns True the rollover has
\* happened inside the call: the current conversation is empty and the
\* newest archived session ends with the interaction just recorded.  A call
\* that returns False leaves that interaction at the end of the current
\* conversation.
C5_GoodbyeSynchronous ==
  last.op = "handle_message" =>
    LET u == last.user
        it == recorded[u][Len(recorded[u])]
        all == AllSessions(u)
    IN /\ (lower(it.question) = OkBye => last.ret)
       /\ last.ret =>
            /\ Conversation(u) = <<>>
            /\ all # <<>>
            /\ all[Len(all)].conversation[all[Len(all)].message_count] = it
       /\ ~last.ret =>
            /\ Conversation(u) # <<>>
            /\ Conversation(u)[Len(Conversation(u))] = it

\* handle_message has just returned True for "Ok Bye" said after an
\* ordinary message, with no poll in between
C5_Witness ==
  /\ last.op = "handle_message"
  /\ last.ret
  /\ now = 0
  /\ Len(recorded[last.user]) = 2
  /\ lower(recorded[last.user][2].question) = OkBye
  /\ AllSessions(last.user)[1].message_count = 2

(* ------------------------------- C6 ----------------------------------- *)
\* C6: every recorded interaction is written at once: a session with a
\* recorded interaction has had a save, and whenever the latest save of a
\* session did not fail, the history file holds the session's current
\* conversation and archived sessions.
C6_WriteThrough ==
  \A u \in DOMAIN sessions :
    /\ recorded[u] # <<>> => u \in DOMAIN save_failed
    /\ (u \in DOMAIN save_failed /\ ~save_failed[u]) =>
         /\ u \in DOMAIN disk
         /\ disk[u].valid
         /\ disk[u].data.current_session.conversation = Conversation(u)
         /\ disk[u].data.all_sessions = AllSessions(u)

\* an appended interaction that is in the file while no rollover has
\* happened yet
C6_Witness ==
  \E u \in DOMAIN sessions :
    /\ last.op = "handle_message" /\ last.user = u /\ ~last.ret
    /\ faults = 0
    /\ Len(Conversation(u)) = 2
    /\ disk[u].data.current_session.conversation = Conversation(u)

(* ------------------------------- C7 ----------------------------------- *)
\* the session a new manager with an empty session map builds for u from
\* the file a successful save of s writes
Reloaded(s) ==
  UserSession(s.user_id,
              save([sess |-> s, disk |-> disk, failed |-> FALSE, faults |-> 0], "ok").disk)

\* C7: for every reachable session, saving it and loading the file into a
\* fresh UserSession of the same user gives the same current conversation
\* and the same list of archived sessions.
C7_RoundTrip ==
  \A u \in DOMAIN sessions :
    /\ Reloaded(sessions[u]).current_conversation = Conversation(u)
    /\ Reloaded(sessions[u]).history.all_sessions = AllSessions(u)
    /\ Reloaded(sessions[u]).history.created_at = sessions[u].history.created_at

\* a session with an archived session and a turn that is not rolled over
C7_Witness ==
  \E u \in DOMAIN sessions :
    /\ Len(AllSessions(u)) = 1
    /\ Len(Conversation(u)) = 1
    /\ Reloaded(sessions[u]).current_conversation = Conversation(u)

(* ------------------------------- C8 ----------------------------------- *)
\* the interactions a history file holds
HeldOnDisk(u) ==
  Held([history |-> [all_sessions |-> disk[u].data.all_sessions],
        current_conversation |-> disk[u].data.current_session.conversation])

\* C8: a failed write loses nothing: whatever writes failed, the session in
\* memory holds every recorded interaction, every call returns, and once
\* the latest save of a session has succeeded its file holds every recorded
\* interaction, those whose own write failed included.
C8_FailedWriteHeals ==
  \A u \in DOMAIN sessions :
    /\ Held(sessions[u]) = recorded[u]
    /\ (u \in DOMAIN save_failed /\ ~save_failed[u]) =>
         /\ u \in DOMAIN disk /\ disk[u].valid
         /\ HeldOnDisk(u) = recorded[u]

\* the only session that ever saved had a write fail, and a later write of
\* it succeeded: its file holds both of its interactions
C8_Witness ==
  \E u \in DOMAIN sessions :
    /\ faults = 1
    /\ DOMAIN save_failed = {u}
    /\ ~save_failed[u]
    /\ Len(recorded[u]) = 2
    /\ HeldOnDisk(u) = recorded[u]

(* ------------------------------- C9 ----------------------------------- *)
\* the step keeps every entry of the session map, and adds one only for the
\* user of a get_or_create_session or handle_message call
SessionsKept ==
  /\ DOMAIN sessions \subseteq DOMAIN sessions'
  /\ \A u \in DOMAIN sessions' \ DOMAIN sessions :
       /\ last'.op \in {"get_or_create_session", "handle_message"}
       /\ last'.user = u
  /\ \A u \in DOMAIN sessions :
       /\ sessions'[u].history.created_at = sessions[u].history.created_at
       /\ IsPrefix(Held(sessions[u]), Held(sessions'[u]))
       /\ (last'.op = "get_or_create_session" /\ last'.user = u)
            => sessions'[u] = [sessions[u] EXCEPT !.last_activity = now']

\* C9: the session map only grows and holds one session per user id, filed
\* under that id; an entry appears only in a get_or_create_session or
\* handle_message call for that user, and once it is there no call
\* replaces it: get_or_create_session returns it with only its
\* last_activity refreshed, and user_id, created_at and every recorded
\* interaction stay.
C9_MapOnlyGrows ==
  [](\A u \in DOMAIN sessions : u \in Users /\ sessions[u].user_id = u)
  /\ [][SessionsKept]_vars

\* a user whom the poller rolled over has been contacted again and has
\* got the session with the archived session back
C9_Witness ==
  /\ last.op = "get_or_create_session"
  /\ last.user \in DOMAIN sessions
  /\ Len(AllSessions(last.user)) = 1
  /\ sessions[last.user].session_start_time < now

(* ------------------------------- C10 ---------------------------------- *)
\* a step without a rollover for u keeps u's conversation or appends one
\* interaction to it
ConversationsExtended ==
  \A u \in DOMAIN sessions \ last'.ended :
    \/ sessions'[u].current_conversation = Conversation(u)
    \/ /\ Len(sessions'[u].current_conversation) = Len(Conversation(u)) + 1
       /\ SubSeq(sessions'[u].current_conversation, 1, Len(Conversation(u)))
            = Conversation(u)
       /\ last'.op = "handle_message" /\ last'.user = u

\* C10: in a step that runs no rollover for a session, its current
\* conversation stays as it is or gets exactly one interaction appended at
\* its end; the interactions already there keep their place and content.
C10_AppendOnly == [][ConversationsExtended]_vars

\* a second interaction has just been appended behind the first
C10_Witness ==
  /\ last.op = "handle_message"
  /\ ~last.ret
  /\ Len(Conversation(last.user)) = 2
  /\ Conversation(last.user) = recorded[last.user]

(* ----------------------- flatten_json: claims ------------------------- *)
\* the text of field k of an object, empty when the object has no such field
FieldText(d, k) == IF has_key(d, k) THEN format(get(d, k, JNull)) ELSE ""

\* the classification rules as the record indexer documents them
DescribedProfile(d) ==
  /\ d.kind = "dict"
  /\ has_key(d, "name")
  /\ \E k \in {"title", "department", "phd"} : has_key(d, k)

DescribedEvent(d) ==
  /\ d.kind = "dict"
  /\ ~DescribedProfile(d)
  /\ has_key(d, "event") \/ has_key(d, "name")
  /\ has_key(d, "date") \/ (has_key(d, "from_date") /\ has_key(d, "to_date"))

DescribedEventSentence(d) ==
  (IF has_key(d, "event") THEN FieldText(d, "event") ELSE FieldText(d, "name"))
  \o " is on "
  \o (IF has_key(d, "date") THEN FieldText(d, "date")
      ELSE FieldText(d, "from_date") \o " to " \o FieldText(d, "to_date"))
  \o "."

DescribedProfileSentence(d) ==
  FieldText(d, "name") \o " is a " \o FieldText(d, "title") \o " in the "
  \o FieldText(d, "department") \o " department. " \o FieldText(d, "name")
  \o " holds " \o FieldText(d, "phd") \o ". Email: " \o FieldText(d, "email") \o "."

\* the string forms of the leaf scalars of a tree, depth first, in document
\* order
RECURSIVE Leaves(_), LeavesOfEach(_)
Leaves(x) ==
  IF x.kind \in {"dict", "list"} THEN LeavesOfEach(x.items) ELSE <<format(x)>>

LeavesOfEach(xs) ==
  IF xs = <<>> THEN <<>> ELSE Leaves(Head(xs)) \o LeavesOfEach(Tail(xs))

\* some object of the tree is a Profile or an Event by the documented rules
RECURSIVE HasDescribedShape(_)
HasDescribedShape(x) ==
  \/ DescribedProfile(x)
  \/ DescribedEvent(x)
  \/ \E i \in 1..Len(x.items) : HasDescribedShape(x.items[i])

Flattened == fn.op = "flatten_json" /\ fn.done

(* ------------------------------- C14 ---------------------------------- *)
\* C14: an object that is no Profile is an Event exactly if it has "event"
\* or "name" and has "date" or both "from_date" and "to_date"; an Event
\* gives the one sentence "<event-or-name> is on <date>.", and every other
\* object that is no Profile, one with "from_date" but neither "to_date"
\* nor "date" included, is flattened generically into its leaves.
C14_EventRule ==
  (Flattened /\ fn.in.kind = "dict" /\ ~DescribedProfile(fn.in)) =>
    IF DescribedEvent(fn.in)
    THEN fn.out = <<DescribedEventSentence(fn.in)>>
    ELSE fn.out = flatten_each(fn.in.items)

(* ------------------------------- C15 ---------------------------------- *)
\* C15: every object with "name" and at least one of "title", "department",
\* "phd" gives exactly the one Profile sentence, whatever other fields it
\* has (the Event fields included), with each absent field rendered as the
\* empty string.
C15_ProfileRule ==
  (Flattened /\ DescribedProfile(fn.in)) =>
    fn.out = <<DescribedProfileSentence(fn.in)>>

\* a Profile that also has the fields of an Event and lacks email and phd
C15_Witness ==
  /\ Flattened
  /\ DescribedProfile(fn.in)
  /\ has_key(fn.in, "date") /\ has_key(fn.in, "event")
  /\ ~has_key(fn.in, "email") /\ ~has_key(fn.in, "phd")
  /\ Len(fn.out) = 1

(* ------------------------------- C16 ---------------------------------- *)
\* C16: for a tree with no object that is a Profile or an Event by the
\* documented rules, flatten_json gives the string forms of the leaf
\* scalars, each once, depth first in document order.
C16_LeavesOnce ==
  (Flattened /\ ~HasDescribedShape(fn.in)) => fn.out = Leaves(fn.in)

(* ------------------------------- C18 ---------------------------------- *)
\* some termination phrase occurs in q as a substring, letter case ignored
HasPhrase(q) ==
  \E k \in 1..Len(goodbye_phrases) :
    LET p == goodbye_phrases[k] IN
    \E i \in 1..Len(q) :
      /\ i + Len(p) - 1 <= Len(q)
      /\ \A j \in 1..Len(p) : LowerChar(q[i + j - 1]) = p[j]

\* what a handle_message step did to the session of its user
HandleMessageEffect ==
  last'.op = "handle_message" =>
    LET u == last'.user
        it == recorded'[u][Len(recorded'[u])]
        conv == IF u \in DOMAIN sessions THEN Conversation(u) ELSE <<>>
        all == IF u \in DOMAIN sessions THEN AllSessions(u) ELSE <<>>
        all2 == sessions'[u].history.all_sessions
    IN IF HasPhrase(it.question)
       THEN /\ last'.ret /\ last'.ended = {u}
            /\ sessions'[u].current_conversation = <<>>
            /\ Len(all2) = Len(all) + 1
            /\ all2[Len(all2)].conversation = Append(conv, it)
       ELSE /\ ~last'.ret /\ last'.ended = {}
            /\ sessions'[u].current_conversation = Append(conv, it)
            /\ all2 = all

\* C18: a handle_message call rolls the session over (and returns True)
\* exactly if the question, letter case ignored, contains one of the
\* termination phrases as a substring; otherwise the interaction is
\* appended to the current conversation and no archived session is added.
C18_GoodbyeIffPhrase == [][HandleMessageEffect]_vars

\* "by e" was appended without a rollover, then "GOODBYE" rolled both over
C18_Witness ==
  /\ last.op = "handle_message" /\ last.ret
  /\ Len(recorded["u1"]) = 2
  /\ recorded["u1"][1].question = <<"b", "y", " ", "e">>
  /\ recorded["u1"][2].question = <<"G", "O", "O", "D", "B", "Y", "E">>
  /\ AllSessions("u1")[1].message_count = 2

(***************************************************************************)
(* Retrieval claims, checked under SpecRetrieve                            *)
(***************************************************************************)
PdfAnswered == rag.out.op = "get_pdf_rag_answer_async" /\ rag.out.status = "returned"
JsonAnswered == rag.out.op = "get_json_rag_answer_async" /\ rag.out.status = "returned"

\* the retrieval rank of a kept document among the candidates
Rank(d) == CHOOSE i \in 1..Len(rag.out.candidates) : rag.out.candidates[i] = d

\* d goes before e in the reranked order: higher score, or equal score and
\* earlier retrieval rank
Before(d, e) ==
  \/ d.score > e.score
  \/ d.score = e.score /\ Rank(d) < Rank(e)

\* texts[1..n] with a blank line between consecutive texts
RECURSIVE Paragraphs(_, _)
Paragraphs(texts, n) ==
  IF n = 0 THEN ""
  ELSE IF n = 1 THEN texts[1]
  ELSE Paragraphs(texts, n - 1) \o "\n\n" \o texts[n]

KeptTexts == [i \in 1..Len(rag.out.kept) |-> rag.out.kept[i].page_content]
KeptSources == [i \in 1..Len(rag.out.kept) |-> rag.out.kept[i].source]

\* C13: with the reranker loaded, document retrieval keeps
\* min(top_n, candidates) candidates, every kept one before every dropped
\* one and the kept ones in order, where "before" is higher score or equal
\* score and earlier retrieval rank; context and sources follow that order.
C13_RerankStable ==
  (PdfAnswered /\ rag.reranker) =>
    LET c == rag.out.candidates
        kept == rag.out.kept
    IN /\ Len(kept) = Min(pdf_top_n, Len(c))
       /\ \A i \in 1..Len(kept) : \E j \in 1..Len(c) : c[j] = kept[i]
       /\ \A i, j \in 1..Len(kept) : i < j => Before(kept[i], kept[j])
       /\ \A i \in 1..Len(kept) : \A j \in 1..Len(c) :
            (\A m \in 1..Len(kept) : kept[m] # c[j]) => Before(kept[i], c[j])
       /\ rag.out.value.context = Paragraphs(KeptTexts, Len(kept))
       /\ rag.out.value.sources = KeptSources

\* three candidates, the third outscoring the first two, which tie: the
\* third is returned first and the first, not the second, comes after it
C13_Witness ==
  /\ PdfAnswered
  /\ rag.reranker
  /\ Len(rag.out.candidates) = 3
  /\ rag.out.candidates[1].score = rag.out.candidates[2].score
  /\ rag.out.candidates[3].score > rag.out.candidates[1].score
  /\ rag.out.kept = <<rag.out.candidates[3], rag.out.candidates[1]>>
  /\ rag.out.value.sources = <<rag.out.candidates[3].source, rag.out.candidates[1].source>>

\* C20: without the reranker on the document path, and always on the record
\* path, the kept candidates are the first min(top_n, candidates) of the
\* similarity ranking in order, the combined text is their texts joined by
\* a blank line and the i-th source is the i-th kept candidate's.
C20_FirstTopN ==
  /\ (PdfAnswered /\ ~rag.reranker) =>
       /\ rag.out.candidates =
            SubSeq(rag.vector_store.docs, 1, Min(pdf_k, Len(rag.vector_store.docs)))
       /\ rag.out.kept =
            SubSeq(rag.out.candidates, 1, Min(pdf_top_n, Len(rag.out.candidates)))
       /\ rag.out.value.context = Paragraphs(KeptTexts, Len(rag.out.kept))
       /\ rag.out.value.sources = KeptSources
  /\ JsonAnswered =>
       /\ rag.out.candidates =
            SubSeq(rag.json_vector_store.docs, 1, Min(json_k, Len(rag.json_vector_store.docs)))
       /\ rag.out.kept =
            SubSeq(rag.out.candidates, 1, Min(json_top_n, Len(rag.out.candidates)))
       /\ rag.out.value.combined_context = Paragraphs(KeptTexts, Len(rag.out.kept))
       /\ rag.out.value.sources = KeptSources
       /\ \A i \in 1..Len(rag.out.kept) :
            rag.out.value.results[i].page_content = rag.out.kept[i].page_content

\* the store is set but the reranker never loaded; of three candidates the
\* first two are returned though the third scores higher
C20_Witness ==
  /\ PdfAnswered
  /\ ~rag.reranker
  /\ Len(rag.out.candidates) = 3
  /\ rag.out.candidates[3].score > rag.out.candidates[1].score
  /\ rag.out.kept = <<rag.out.candidates[1], rag.out.candidates[2]>>

\* C19 as stated: no source identifier occurs twice in a returned bundle's
\* source list.
C19_DistinctSources ==
  (PdfAnswered \/ JsonAnswered) =>
    \A i, j \in 1..Len(rag.out.value.sources) :
      rag.out.value.sources[i] = rag.out.value.sources[j] => i = j

\* C19 as the code has it: the source list has one entry per kept chunk, in
\* kept order, so a source that contributes n kept chunks is listed n times.
C19_SourcePerKeptChunk ==
  (PdfAnswered \/ JsonAnswered) =>
    /\ Len(rag.out.value.sources) = Len(rag.out.kept)
    /\ \A src \in {"f1.pdf", "f2.pdf", "f3.pdf", "calendar.json", "faculty.json",
                   "broken.json", "empty.json", "notes.txt"} :
         Cardinality({i \in 1..Len(rag.out.value.sources) : rag.out.value.sources[i] = src})
           = Cardinality({i \in 1..Len(rag.out.kept) : rag.out.kept[i].source = src})
    /\ \A i \in 1..Len(rag.out.kept) : rag.out.value.sources[i] = rag.out.kept[i].source

\* both kept chunks come from f1.pdf and f1.pdf is listed twice
C19_Witness ==
  /\ PdfAnswered
  /\ Len(rag.out.kept) = 2
  /\ rag.out.kept[1].source = "f1.pdf"
  /\ rag.out.kept[2].source = "f1.pdf"
  /\ rag.out.value.sources = <<"f1.pdf", "f1.pdf">>

\* C12: however many times the record index is initialized, it holds the
\* units of the JSON directory once each, as after a single initialization.
C12_IndexedOnce ==
  rag.json_vector_store.set =>
    rag.json_vector_store.docs = load_json_documents(rag.json_dir)

(***************************************************************************)
(* Tool claims, checked under SpecTool                                     *)
(***************************************************************************)
\* C11: within a tool call the progress reply is never sent after the
\* completion reply nor after the delivery, and from the completion reply
\* on no status task is left that could still send it.
C11_ProgressNeverLate ==
  /\ \A i, j \in 1..Len(rag.log) :
       (i < j /\ rag.log[j] = "progress") => rag.log[i] \notin {"completion", "delivered"}
  /\ rag.main \in {"completion_reply", "idle"} =>
       rag.status_task \in {"none", "done", "cancelled"}

\* the progress reply was sent and the status task was cancelled while it
\* awaited that reply; completion and delivery came after
C11_Witness ==
  /\ rag.log = <<"progress", "completion", "delivered">>
  /\ rag.status_task = "cancelled"
  /\ rag.main = "idle"

\* a call has ended and the engine had returned a bundle to it
ToolEnded(tool) ==
  /\ rag.main = "idle"
  /\ rag.tool = tool
  /\ rag.out.status = "returned"
  /\ rag.out.op \in {"get_pdf_rag_answer_async", "get_json_rag_answer_async"}

BundleText ==
  IF rag.tool = "get_rag_answer" THEN rag.out.value.context
  ELSE rag.out.value.combined_context

NoInformationDelivered ==
  /\ rag.delivered.status = "raised"
  /\ rag.delivered.error \in
       { "Error retrieving RAG answer: No relevant information found.",
         "Error retrieving calendar/faculty information: No relevant information found in calendar or faculty data." }

ContextDelivered ==
  /\ rag.delivered.status = "returned"
  /\ rag.delivered.value = [query |-> Query, context |-> BundleText]

\* C17 as stated: no delivered result has an empty context; a bundle with
\* empty text ends the call in the 'no relevant information' failure and
\* every other bundle is returned as {query, context}.
C17_EmptyContextFails ==
  /\ (rag.main = "idle" /\ rag.delivered.status = "returned") =>
       rag.delivered.value.context # ""
  /\ \A tool \in {"get_rag_answer", "get_rag_answer_json"} :
       ToolEnded(tool) =>
         IF BundleText = "" THEN NoInformationDelivered ELSE ContextDelivered

\* C17 as the code has it: as above, but get_rag_answer_json also fails on
\* a combined text that is all whitespace.
C17_EmptyOrBlankContextFails ==
  /\ (rag.main = "idle" /\ rag.delivered.status = "returned") =>
       rag.delivered.value.context # ""
  /\ ToolEnded("get_rag_answer") =>
       IF BundleText = "" THEN NoInformationDelivered ELSE ContextDelivered
  /\ ToolEnded("get_rag_answer_json") =>
       IF \A i \in 1..Len(BundleText) : SubSeq(BundleText, i, i) \in {" ", "\t", "\n"}
       THEN NoInformationDelivered ELSE ContextDelivered

\* an initialized PDF store without documents: the engine returned the
\* empty bundle and the call ended in the failure
C17_Witness ==
  /\ ToolEnded("get_rag_answer")
  /\ rag.out.candidates = <<>>
  /\ rag.out.value.context = ""
  /\ NoInformationDelivered

(* ------------------------------- C25 ---------------------------------- *)
ArchivesNonEmpty ==
  \A u \in DOMAIN sessions :
    \A i \in 1..Len(AllSessions(u)) :
      /\ Len(AllSessions(u)[i].conversation) >= 1
      /\ AllSessions(u)[i].message_count = Len(AllSessions(u)[i].conversation)

EmptyRolloverArchivesNothing ==
  \A u \in last'.ended :
    (u \in DOMAIN sessions /\ PreRollover(u) = <<>>) =>
      sessions'[u].history.all_sessions = AllSessions(u)

\* C25: every archived session has a conversation of length >= 1 and a
\* message_count equal to that length, and a rollover that finds the current
\* conversation empty leaves all_sessions as it was.
C25_NoEmptyArchive == []ArchivesNonEmpty /\ [][EmptyRolloverArchivesNothing]_vars

\* the poller has rolled over a user whose only interaction was a goodbye:
\* the goodbye rollover archived it and the timeout rollover found nothing
C25_Witness ==
  /\ last.op = "check_inactive_sessions"
  /\ \E u \in last.ended :
       /\ Len(recorded[u]) = 1
       /\ is_goodbye_message(recorded[u][1].question)
       /\ Len(AllSessions(u)) = 1
       /\ Conversation(u) = <<>>

(* ------------------------------- C26 ---------------------------------- *)
Untouched(u) ==
  /\ sessions'[u].current_conversation = sessions[u].current_conversation
  /\ sessions'[u].history.all_sessions = sessions[u].history.all_sessions
  /\ sessions'[u].session_start_time = sessions[u].session_start_time
  /\ sessions'[u].last_activity = sessions[u].last_activity

RolloverFrame ==
  /\ last'.op = "check_inactive_sessions" =>
       \A u \in DOMAIN sessions :
         /\ u \in last'.ended <=> now - sessions[u].last_activity > timeout_seconds
         /\ u \in last'.ended => sessions'[u].last_activity = now
         /\ u \notin last'.ended => Untouched(u)
  /\ last'.op \in {"handle_message", "end_session"} =>
       \A u \in DOMAIN sessions \ {last'.user} : Untouched(u)

\* C26: a poll rolls over exactly the tracked users idle for more than
\* timeout_seconds and leaves every other tracked user's current
\* conversation, archived sessions, session start and last activity as they
\* were; a goodbye or end_session does so for every user but its own.
C26_RolloverFrame == [][RolloverFrame]_vars

\* a poll has rolled over one user and left alone another who was idle for
\* exactly timeout_seconds
C26_Witness ==
  /\ last.op = "check_inactive_sessions"
  /\ \E u, v \in DOMAIN sessions :
       /\ u \in last.ended
       /\ v \notin last.ended
       /\ now - sessions[v].last_activity = timeout_seconds
       /\ Conversation(v) # <<>>

(* ------------------------------- C21 ---------------------------------- *)
TaskStopped == ~is_running => cleanup_task.state \in {"cancelling", "done"}

AllHeldOnce == \A u \in DOMAIN sessions : Held(sessions[u]) = recorded[u]

AfterStop ==
  /\ ~is_running =>
       /\ last'.op # "check_inactive_sessions"
       /\ cleanup_task.state = "done" => cleanup_task'.state = "done"
  /\ (cleanup_task'.state = "cancelling" /\ cleanup_task.state # "cancelling") =>
       cleanup_task.state = "sleeping"

\* C21: once stop_cleanup_task has run the polling task is cancelled or
\* done, it was asleep when the cancellation was requested, no step after
\* the stop is a poll, a task that is done stays done, and every recorded
\* interaction is held exactly once by its session.
C21_StopIsClean == []TaskStopped /\ [][AfterStop]_vars /\ []AllHeldOnce

\* the task was stopped and is done, and a user idle for longer than
\* timeout plus one cleanup interval still has the current conversation
C21_Witness ==
  /\ ~is_running
  /\ cleanup_task.state = "done"
  /\ \E u \in DOMAIN sessions :
       /\ now - sessions[u].last_activity > timeout_seconds + cleanup_interval
       /\ Conversation(u) # <<>>

(* ------------------------------- C22 ---------------------------------- *)
NotInitialized(out, message) ==
  /\ out.status = "raised"
  /\ out.error = message
  /\ out.candidates = <<>>
  /\ out.kept = <<>>

IndexUnchanged ==
  /\ rag'.vector_store = rag.vector_store
  /\ rag'.reranker = rag.reranker
  /\ rag'.json_vector_store = rag.json_vector_store
  /\ rag'.json_copies = rag.json_copies

UninitializedRetrieval ==
  /\ (rag'.out.op = "get_pdf_rag_answer_async" /\ ~rag.vector_store.set) =>
       /\ NotInitialized(rag'.out,
            "PDF RAG engine not initialized. Call initialize_pdf_rag() first.")
       /\ IndexUnchanged
  /\ (rag'.out.op = "get_json_rag_answer_async" /\ ~rag.json_vector_store.set) =>
       /\ NotInitialized(rag'.out,
            "JSON RAG engine not initialized. Call initialize_json_rag() first.")
       /\ IndexUnchanged

\* C22: a retrieval on an engine whose store is not set raises the
\* not-initialized error with no documents retrieved or kept and no bundle,
\* and leaves both stores, the reranker and the collection as they were.
C22_NotInitialized == [][UninitializedRetrieval]_vars

\* the PDF directory holds chunks but the engine was never initialized, and
\* a retrieval has just raised
C22_Witness ==
  /\ rag.out.op = "get_pdf_rag_answer_async"
  /\ rag.out.status = "raised"
  /\ ~rag.vector_store.set
  /\ rag.pdf_corpus # <<>>
  /\ rag.json_vector_store.set

(* ------------------------------- C24 ---------------------------------- *)
\* the directory without the files json.load cannot parse
WithoutMalformed(dir) == SelectSeq(dir, LAMBDA f : f.parses)

\* C24: after initialize_json_rag the indexed units are those that
\* load_json_documents gives for the directory with the malformed files
\* taken out (same texts, sources and item indices, in the same order), no
\* unit comes from a malformed file, and the initialization raises exactly
\* when that directory gives no unit.
C24_MalformedSkipped ==
  rag.out.op = "initialize_json_rag" =>
    LET units == load_json_documents(WithoutMalformed(rag.json_dir)) IN
    IF units = <<>> THEN rag.out.status = "raised"
    ELSE /\ rag.out.status = "returned"
         /\ rag.json_vector_store.docs = copies_of(units, rag.json_copies)
         /\ \A i \in 1..Len(rag.json_vector_store.docs) :
              \E j \in 1..Len(rag.json_dir) :
                /\ rag.json_dir[j].parses
                /\ rag.json_dir[j].fname = rag.json_vector_store.docs[i].source

\* broken.json is listed between calendar.json and faculty.json and the
\* index holds the two events and the profile
C24_Witness ==
  /\ rag.out.op = "initialize_json_rag"
  /\ rag.out.status = "returned"
  /\ Len(rag.json_dir) = 3
  /\ rag.json_dir[1].fname = "calendar.json"
  /\ rag.json_dir[2].fname = "broken.json"
  /\ rag.json_dir[3].fname = "faculty.json"
  /\ rag.json_copies = 1
  /\ [i \in 1..Len(rag.json_vector_store.docs) |-> rag.json_vector_store.docs[i].source]
       = <<"calendar.json", "calendar.json", "faculty.json">>
  /\ [i \in 1..Len(rag.json_vector_store.docs) |-> rag.json_vector_store.docs[i].index]
       = <<0, 1, 0>>

(* ------------------------------- C27 ---------------------------------- *)
Count(log, x) == Cardinality({i \in 1..Len(log) : log[i] = x})

CompletionOnce ==
  /\ Count(rag.log, "completion") <= 1
  /\ Count(rag.log, "completion") = 1 => rag.status_task \in {"done", "cancelled"}
  /\ (rag.main = "idle" /\ rag.tool # "none") =>
       /\ rag.delivered.status \in {"returned", "raised"}
       /\ Len(rag.log) >= 2
       /\ rag.log[Len(rag.log)] = "delivered"
       /\ rag.log[Len(rag.log) - 1] = "completion"
       /\ Count(rag.log, "completion") = 1
       /\ Count(rag.log, "delivered") = 1
  /\ rag.status_task \in {"created", "sleeping"} => Count(rag.log, "progress") = 0

NoProgressOnceRetrievalEnded ==
  rag.main \in {"await_status_task", "completion_reply"} =>
    Count(rag'.log, "progress") = Count(rag.log, "progress")

\* C27: every tool call, whatever its outcome, sends the completion reply
\* exactly once, with the status task done or cancelled by then, and
\* immediately before the outcome is delivered; no progress reply is sent
\* while the status task is still in its delay, nor once the retrieval has
\* ended, so a retrieval that ends within the delay has no progress reply.
C27_CompletionOnce == []CompletionOnce /\ [][NoProgressOnceRetrievalEnded]_vars

\* a call whose retrieval raised while the status task was still in its
\* delay: the completion reply and the delivery of the ToolError, nothing else
C27_Witness ==
  /\ rag.main = "idle"
  /\ rag.out.status = "raised"
  /\ rag.out.error = "retriever failed"
  /\ rag.delivered.status = "raised"
  /\ rag.status_task = "cancelled"
  /\ rag.log = <<"completion", "delivered">>

(* ------------------------------- C23 ---------------------------------- *)
\* the calls of the script that fail before its first success
FailuresFirst ==
  Cardinality({i \in 1..max_retries : \A j \in 1..i : ~fn.script[j]})

AllFail == \A i \in 1..max_retries : ~fn.script[i]

\* C23: ctx.connect() is called at most max_retries times, the i-th failed
\* call is followed by a sleep of min(2^(i-1), 30) seconds, the loop ends at
\* the first call that succeeds, and when all max_retries calls fail the
\* entrypoint ends in the fatal error and the session is not started.
C23_BoundedRetry ==
  /\ fn.connects <= max_retries
  /\ fn.connects <= FailuresFirst + 1
  /\ Len(fn.delays) <= fn.connects
  /\ \A i \in 1..Len(fn.delays) :
       fn.delays[i] = IF 2 ^ (i - 1) <= 30 THEN 2 ^ (i - 1) ELSE 30
  /\ fn.pc \in {"connected", "started"} =>
       /\ fn.connects = FailuresFirst + 1
       /\ fn.script[fn.connects]
       /\ Len(fn.delays) = FailuresFirst
  /\ fn.pc \in {"exhausted", "fatal"} =>
       /\ AllFail
       /\ fn.connects = max_retries
  /\ AllFail => fn.pc \notin {"connected", "started"}

\* all five calls failed: sleeps of 1, 2, 4, 8 and 16 seconds and the fatal
\* error
C23_Witness ==
  /\ fn.pc = "fatal"
  /\ fn.connects = max_retries
  /\ fn.delays = <<1, 2, 4, 8, 16>>

====
